---- MODULE Spec2Model ----
(***************************************************************************)
(* Life Map Coaching (src/app.py): the session's event collection and the  *)
(* handlers that change it (Add Event, Delete, Clear All Events, Save      *)
(* Reflection, Import Data), and what the Visual Analytics, Insights and    *)
(* Progress Tracking pages derive from the collection.                     *)
(*                                                                         *)
(* Strings carry the source's text without the leading emoji.  Positions   *)
(* in life_events are 1-based here; the DataFrame labels and the list      *)
(* indexes of the source are 0-based and are kept 0-based in the handlers' *)
(* inputs.  datetime.now() is a reading of a clock that does not go back;  *)
(* a timestamp is the reading (its isoformat text orders as the reading).  *)
(***************************************************************************)
EXTENDS Integers, Sequences, FiniteSets, TLC

VARIABLES
    life_events,      \* st.session_state.life_events
    current_age,      \* st.session_state.current_age
    now,              \* the last reading of the wall clock
    message,          \* what the last handler reported (st.success / st.error)
    lastOp,           \* the widget interaction that triggered the last run
    recommendations,  \* the list the last run built (empty off the Insights page)
    growth_trajectory,    \* Insights page: the growth trajectory line ("" if none)
    top_range,            \* Insights page: the most impactful period
    top_area,             \* Insights page: the primary focus area
    most_common_category, \* Visual Analytics page: the top category
    milestones            \* Progress Tracking page: the milestone lines written

vars == <<life_events, current_age, now, message, lastOp, recommendations,
          growth_trajectory, top_range, top_area, most_common_category,
          milestones>>

----------------------------------------------------------------------------
(* Bounds of the model *)

MaxEvents == 3
MaxClock == 2
MaxInsightLen == 6
MaxPatternLen == 5
MaxDisplayLen == 3
MaxProgressLen == 5

----------------------------------------------------------------------------
(* Module-level data of the source *)

\* age_buckets: label -> the ages of the bucket, in the dict's order
age_buckets ==
    << [label |-> "0-5 (Infancy & Toddler)",      lo |-> 0,  hi |-> 5],
       [label |-> "6-12 (Elementary School)",     lo |-> 6,  hi |-> 12],
       [label |-> "13-17 (Teenage Years)",        lo |-> 13, hi |-> 17],
       [label |-> "18-22 (College/Early Adult)",  lo |-> 18, hi |-> 22],
       [label |-> "23-29 (Young Professional)",   lo |-> 23, hi |-> 29],
       [label |-> "30-39 (Career Building)",      lo |-> 30, hi |-> 39],
       [label |-> "40-49 (Midlife Growth)",       lo |-> 40, hi |-> 49],
       [label |-> "50-59 (Mature Wisdom)",        lo |-> 50, hi |-> 59],
       [label |-> "60+ (Golden Years)",           lo |-> 60, hi |-> 100] >>

event_categories ==
    << "Education & Learning", "Career & Work", "Relationships & Family",
       "Health & Wellness", "Personal Achievement", "Loss & Grief",
       "Travel & Adventure", "Financial", "Living Situation",
       "Creative & Hobbies", "Life-Changing Moment", "Social & Community" >>

sentiments == << "Positive", "Negative", "Neutral", "Mixed" >>

life_areas ==
    << "Personal Growth", "Relationships", "Career", "Health", "Family",
       "Education", "Finances", "Spirituality", "Recreation" >>

InitialAge == 25

Range(s) == { s[i] : i \in 1..Len(s) }

\* next((k for k, v in age_buckets.items() if age in v), "Unknown")
RECURSIVE FirstBucket(_, _)
FirstBucket(age, k) ==
    IF k > Len(age_buckets) THEN "Unknown"
    ELSE IF age \in (age_buckets[k].lo)..(age_buckets[k].hi)
         THEN age_buckets[k].label
         ELSE FirstBucket(age, k + 1)

RangeOf(age) == FirstBucket(age, 1)

----------------------------------------------------------------------------
(* Inputs: what the user types into the widgets, and the files uploaded *)

\* The fields of the "enhanced_life_map_form".  number_input(min_value=0,
\* max_value=100) and slider(1, 10) bound age and impact; the select boxes
\* offer only the listed options; the text fields may be left empty.
FormInputs ==
    << [age |-> 5, title |-> "Trip", category |-> "Travel & Adventure",
        description |-> "First flight", sentiment |-> "Positive", impact |-> 10,
        life_area |-> "Recreation", lessons_learned |-> "",
        current_perspective |-> ""],
       [age |-> 60, title |-> "Retired", category |-> "Career & Work",
        description |-> "Last day at work", sentiment |-> "Negative", impact |-> 1,
        life_area |-> "Career", lessons_learned |-> "Plan ahead",
        current_perspective |-> "Fine"],
       [age |-> 6, title |-> "", category |-> "Education & Learning",
        description |-> "First day of school", sentiment |-> "Mixed", impact |-> 4,
        life_area |-> "Education", lessons_learned |-> "",
        current_perspective |-> ""],
       [age |-> 100, title |-> "Birthday", category |-> "Social & Community",
        description |-> "", sentiment |-> "Neutral", impact |-> 5,
        life_area |-> "Family", lessons_learned |-> "",
        current_perspective |-> ""] >>

\* The text area of the reflection: left empty, or filled in
ReflectionTexts == << "", "I learned a lot" >>

selected_prompt == "What patterns do you notice in your most impactful experiences?"

\* A record of an uploaded JSON file
Raw(a, t, c, s, i, l, ts, r) ==
    [age |-> a, title |-> t, category |-> c, description |-> "imported",
     sentiment |-> s, impact |-> i, life_area |-> l, lessons_learned |-> "",
     current_perspective |-> "", timestamp |-> ts, range |-> r]

\* Uploaded files: json.load succeeds (parsed) with a list of records, or raises
ImportFiles ==
    << [parsed |-> TRUE,
        data |-> << Raw(30, "Old job", "Career & Work", "Positive", 7, "Career",
                        0, "30-39 (Career Building)"),
                    Raw(31, "Bad record", "Career & Work", "Negative", 99, "Career",
                        0, "30-39 (Career Building)"),
                    Raw(13, "Moved", "Living Situation", "Mixed", 3, "Family",
                        0, "13-17 (Teenage Years)") >>],
       [parsed |-> TRUE,
        data |-> << Raw(150, "Far future", "Financial", "Neutral", 5, "Finances",
                        0, "Unknown") >>],
       [parsed |-> FALSE, data |-> << >>] >>

----------------------------------------------------------------------------
(* What a handler reports *)

NoMessage == [kind |-> "none", n |-> 0]
Success(n) == [kind |-> "success", n |-> n]
Error == [kind |-> "error", n |-> 0]

Op(name, arg) == [op |-> name, arg |-> arg]

\* what a run leaves unwritten: the pages it does not render
NoInsights ==
    /\ recommendations' = << >>
    /\ growth_trajectory' = ""
    /\ top_range' = ""
    /\ top_area' = ""

NoAnalytics == most_common_category' = ""

NoProgress == milestones' = << >>

NothingRendered == NoInsights /\ NoAnalytics /\ NoProgress

\* no page written yet
Blank ==
    /\ recommendations = << >>
    /\ growth_trajectory = ""
    /\ top_range = ""
    /\ top_area = ""
    /\ most_common_category = ""
    /\ milestones = << >>

----------------------------------------------------------------------------
(* Add Event *)

\* (variant: the description is not required)
AcceptedTitleOnly(in) == in.title # ""

\* the condition of the submit branch, given that the button was pressed
Accepted(in) == in.title # "" /\ in.description # ""

\* new_event
NewEvent(in, t) ==
    [age |-> in.age, title |-> in.title, category |-> in.category,
     description |-> in.description, sentiment |-> in.sentiment,
     impact |-> in.impact, life_area |-> in.life_area,
     lessons_learned |-> in.lessons_learned,
     current_perspective |-> in.current_perspective,
     timestamp |-> t, range |-> RangeOf(in.age)]

\* (variant: the new record is put first)
AppendEventFirst(events, e) == << e >> \o events

\* life_events.append(new_event)
AppendEvent(events, e) == Append(events, e)

AddEvent(f) ==
    LET in == FormInputs[f] IN
    /\ lastOp' = Op("submit", f)
    /\ NothingRendered
    /\ IF Accepted(in)
       THEN /\ Len(life_events) < MaxEvents
            /\ \E t \in now..MaxClock :
                  /\ now' = t
                  /\ life_events' = AppendEvent(life_events, NewEvent(in, t))
            /\ current_age' = in.age
            /\ message' = Success(1)
       ELSE /\ message' = NoMessage
            /\ UNCHANGED <<life_events, current_age, now>>

----------------------------------------------------------------------------
(* The event list of the input page: Delete and Clear All Events *)

Filters == << "All", "Positive", "Negative", "Neutral", "Mixed" >>

\* the labels (0-based positions in life_events) of the rows of display_df
DisplayedLabels(filter_sentiment) ==
    { i - 1 : i \in { p \in 1..Len(life_events) :
                        \/ filter_sentiment = "All"
                        \/ life_events[p].sentiment = filter_sentiment } }

\* [e for i, e in enumerate(life_events) if i != idx]
RECURSIVE DeleteFrom(_, _, _)
DeleteFrom(events, idx, i) ==
    IF i >= Len(events) THEN << >>
    ELSE IF i # idx
         THEN << events[i + 1] >> \o DeleteFrom(events, idx, i + 1)
         ELSE DeleteFrom(events, idx, i + 1)

\* (variant: removes every record equal to the one at idx)
DeleteEqual(events, idx) ==
    IF idx \in 0..(Len(events) - 1)
    THEN SelectSeq(events, LAMBDA e : e # events[idx + 1])
    ELSE events

DeleteAt(events, idx) == DeleteFrom(events, idx, 0)

Delete(filter_sentiment, idx) ==
    /\ life_events # << >>
    /\ idx \in DisplayedLabels(filter_sentiment)
    /\ life_events' = DeleteAt(life_events, idx)
    /\ message' = NoMessage
    /\ lastOp' = Op("delete", idx)
    /\ NothingRendered
    /\ UNCHANGED <<current_age, now>>

ClearAll ==
    /\ life_events # << >>
    /\ life_events' = << >>
    /\ message' = NoMessage
    /\ lastOp' = Op("clear", 0)
    /\ NothingRendered
    /\ UNCHANGED <<current_age, now>>

----------------------------------------------------------------------------
(* Import Data *)

\* life_events.extend(imported_data)
Extend(events, imported_data) == events \o imported_data

ImportData(u) ==
    LET uploaded_file == ImportFiles[u] IN
    /\ lastOp' = Op("import", u)
    /\ NothingRendered
    /\ UNCHANGED <<current_age, now>>
    /\ IF uploaded_file.parsed
       THEN /\ Len(life_events) + Len(uploaded_file.data) <= MaxEvents
            /\ life_events' = Extend(life_events, uploaded_file.data)
            /\ message' = Success(Len(uploaded_file.data))
       ELSE /\ message' = Error
            /\ UNCHANGED life_events

----------------------------------------------------------------------------
(* Insights & Coaching: the recommendation list *)

\* (df['sentiment'] == s).sum()
SentimentCount(df, s) == Len(SelectSeq(df, LAMBDA e : e.sentiment = s))

\* high_impact_events = df[df['impact'] >= 8]
high_impact_events(df) == SelectSeq(df, LAMBDA e : e.impact >= 8)

\* the rows of df ordered by age, largest first, rows of equal age in their
\* order in df (the order nlargest(..., keep='first') selects in)
RECURSIVE InsertByAgeDesc(_, _)
InsertByAgeDesc(sorted, e) ==
    IF sorted = << >> THEN << e >>
    ELSE IF e.age > sorted[1].age
         THEN << e >> \o sorted
         ELSE << sorted[1] >> \o InsertByAgeDesc(Tail(sorted), e)

RECURSIVE SortByAgeDesc(_, _)
SortByAgeDesc(df, k) ==
    IF k = 0 THEN << >>
    ELSE InsertByAgeDesc(SortByAgeDesc(df, k - 1), df[k])

\* (variant: the first n rows in insertion order, df.head(n))
HeadRows(df, n) == SubSeq(df, 1, IF n < Len(df) THEN n ELSE Len(df))

\* df.nlargest(n, 'age')
NLargestByAge(df, n) ==
    SubSeq(SortByAgeDesc(df, Len(df)), 1, IF n < Len(df) THEN n ELSE Len(df))

\* df['life_area'].value_counts(): the count of each value present
AreaCount(df, a) == Len(SelectSeq(df, LAMBDA e : e.life_area = a))

AreasPresent(df) == { df[i].life_area : i \in 1..Len(df) }

\* life_area_counts.iloc[0]: the largest count
TopAreaCount(df) ==
    CHOOSE c \in { AreaCount(df, a) : a \in AreasPresent(df) } :
        \A a \in AreasPresent(df) : AreaCount(df, a) <= c

\* life_area_counts.index[0]: read only where its count exceeds half of the
\* rows, where it is the only value with the largest count
TopArea(df) ==
    CHOOSE a \in AreasPresent(df) : AreaCount(df, a) = TopAreaCount(df)

Item(area, subject) == [area |-> area, subject |-> subject]

\* positive_ratio < 0.4, the ratio being count / len(df); in integers
\* (the float comparison agrees with the exact one for every len(df) < 400)
SentimentBalanceFires(df) ==
    10 * SentimentCount(df, "Positive") < 4 * Len(df)

\* len(high_impact_events) < len(df) * 0.3
ImpactPatternFires(df) ==
    10 * Len(high_impact_events(df)) < 3 * Len(df)

\* life_area_counts.iloc[0] > len(df) * 0.5
LifeAreaFires(df) == 2 * TopAreaCount(df) > Len(df)

\* len(df) >= 5 and (recent_events['sentiment'] == 'Negative').sum() >= 3
RecentEventsFires(df) ==
    /\ Len(df) >= 5
    /\ SentimentCount(NLargestByAge(df, 5), "Negative") >= 3

\* (variant: the last rule inserts its item at the front of the list)
RecommendationsStressFirst(df) ==
    LET r1 == IF SentimentBalanceFires(df)
              THEN << Item("Mindset & Perspective", "") >> ELSE << >>
        r2 == IF ImpactPatternFires(df)
              THEN Append(r1, Item("Goal Setting", "")) ELSE r1
        r3 == IF LifeAreaFires(df)
              THEN Append(r2, Item("Life Balance", TopArea(df))) ELSE r2
    IN IF RecentEventsFires(df)
       THEN << Item("Stress Management", "") >> \o r3 ELSE r3

\* recommendations = [] followed by the four conditional appends
Recommendations(df) ==
    LET r1 == IF SentimentBalanceFires(df)
              THEN << Item("Mindset & Perspective", "") >> ELSE << >>
        r2 == IF ImpactPatternFires(df)
              THEN Append(r1, Item("Goal Setting", "")) ELSE r1
        r3 == IF LifeAreaFires(df)
              THEN Append(r2, Item("Life Balance", TopArea(df))) ELSE r2
    IN IF RecentEventsFires(df)
       THEN Append(r3, Item("Stress Management", "")) ELSE r3

----------------------------------------------------------------------------
(* Insights & Coaching: the detected patterns *)

\* the rows of df ordered by age, smallest first, rows of equal age in their
\* order in df (the order nsmallest(..., keep='first') selects in)
RECURSIVE InsertByAgeAsc(_, _)
InsertByAgeAsc(sorted, e) ==
    IF sorted = << >> THEN << e >>
    ELSE IF e.age < sorted[1].age
         THEN << e >> \o sorted
         ELSE << sorted[1] >> \o InsertByAgeAsc(Tail(sorted), e)

RECURSIVE SortByAgeAsc(_, _)
SortByAgeAsc(df, k) ==
    IF k = 0 THEN << >>
    ELSE InsertByAgeAsc(SortByAgeAsc(df, k - 1), df[k])

\* (variant: the first n rows of df as they stand)
NSmallestUnsorted(df, n) ==
    SubSeq(df, 1, IF n < Len(df) THEN n ELSE Len(df))

\* df.nsmallest(n, 'age')
NSmallestByAge(df, n) ==
    SubSeq(SortByAgeAsc(df, Len(df)), 1, IF n < Len(df) THEN n ELSE Len(df))

\* rows['impact'].sum()
RECURSIVE ImpactSum(_)
ImpactSum(rows) ==
    IF rows = << >> THEN 0 ELSE rows[1].impact + ImpactSum(Tail(rows))

\* a['impact'].mean() > b['impact'].mean(), the means as sum / count
MeanImpactGreater(a, b) == ImpactSum(a) * Len(b) > ImpactSum(b) * Len(a)

\* (variant: equal averages count as increasing)
GrowthTrajectoryOrEqual(df) ==
    IF Len(df) >= 3
    THEN IF ~MeanImpactGreater(NSmallestByAge(df, 3), NLargestByAge(df, 3))
         THEN "Increasing" ELSE "Stabilizing"
    ELSE ""

\* the growth trajectory line: recent_avg > early_avg over nlargest(3, 'age')
\* and nsmallest(3, 'age'), written only if len(df) >= 3
GrowthTrajectory(df) ==
    IF Len(df) >= 3
    THEN IF MeanImpactGreater(NLargestByAge(df, 3), NSmallestByAge(df, 3))
         THEN "Increasing" ELSE "Stabilizing"
    ELSE ""

\* The values of the two columns in ascending string order, the order in which
\* Series.mode() returns values of equal frequency.  The stored category
\* strings begin with an emoji, which decides their order.
life_areas_sorted ==
    << "Career", "Education", "Family", "Finances", "Health",
       "Personal Growth", "Recreation", "Relationships", "Spirituality" >>

categories_sorted ==
    << "Life-Changing Moment", "Relationships & Family", "Travel & Adventure",
       "Education & Learning", "Creative & Hobbies", "Personal Achievement",
       "Living Situation", "Health & Wellness", "Financial", "Career & Work",
       "Loss & Grief", "Social & Community", "Personal Growth" >>

\* the number of rows of df holding v in column col
ValueCount(df, col, v) == Cardinality({ i \in 1..Len(df) : df[i][col] = v })

\* the values of column col with the highest number of rows
Modes(df, col) ==
    LET values == { df[i][col] : i \in 1..Len(df) }
        counts == [v \in values |-> ValueCount(df, col, v)]
    IN { v \in values : \A u \in values : counts[u] <= counts[v] }

\* the first value of the sequence order that is in S
FirstIn(order, S) ==
    order[CHOOSE k \in 1..Len(order) :
            order[k] \in S /\ \A j \in 1..(k - 1) : order[j] \notin S]

\* (variant: of the most frequent life areas, the first of the selectbox)
ModeLifeAreaListed(df) == FirstIn(life_areas, Modes(df, "life_area"))

\* df['life_area'].mode().iloc[0]
ModeLifeArea(df) == FirstIn(life_areas_sorted, Modes(df, "life_area"))

\* df['category'].mode().iloc[0]
ModeCategory(df) == FirstIn(categories_sorted, Modes(df, "category"))

\* the rows of one group of df.groupby('range')
RangeGroup(df, r) == SelectSeq(df, LAMBDA e : e.range = r)

\* df.groupby('range')['impact'].mean(): for each range present, the mean as
\* the total and the number of its rows
range_impact(df) ==
    [r \in { df[i].range : i \in 1..Len(df) } |->
        [total |-> ImpactSum(RangeGroup(df, r)), rows |-> Len(RangeGroup(df, r))]]

\* (variant: the groups with the highest impact total)
TopRangesByTotal(df) ==
    LET m == range_impact(df)
    IN { r \in DOMAIN m : \A q \in DOMAIN m : m[q].total <= m[r].total }

\* the groups at which range_impact is highest.  sort_values(ascending=False)
\* sorts with the default kind, quicksort, which may leave groups of equal mean
\* in any order, so index[0] is one of these groups.
TopRanges(df) ==
    LET m == range_impact(df)
    IN { r \in DOMAIN m :
           \A q \in DOMAIN m : m[q].total * m[r].rows <= m[r].total * m[q].rows }

\* what a run writes on the Insights page, from the events it starts with
InsightsPage(df) ==
    /\ recommendations' = Recommendations(df)
    /\ growth_trajectory' = GrowthTrajectory(df)
    /\ top_range' \in TopRanges(df)
    /\ top_area' = ModeLifeArea(df)
    /\ NoAnalytics
    /\ NoProgress

----------------------------------------------------------------------------
(* The runs of the Visual Analytics and Insights & Coaching pages *)

\* a run of the script with the Visual Analytics page selected and events
\* present
RenderAnalytics ==
    /\ life_events # << >>
    /\ most_common_category' = ModeCategory(life_events)
    /\ NoInsights
    /\ NoProgress
    /\ message' = NoMessage
    /\ lastOp' = Op("analytics", 0)
    /\ UNCHANGED <<life_events, current_age, now>>

\* a run of the script with the Insights page selected and events present
RenderInsights ==
    /\ life_events # << >>
    /\ InsightsPage(life_events)
    /\ message' = NoMessage
    /\ lastOp' = Op("insights", 0)
    /\ UNCHANGED <<life_events, current_age, now>>

(* Save Reflection, at the end of the Insights page: the run has built the   *)
(* recommendation list from the events as they were before the append       *)

\* (variant: the reflection is entered at the initial age)
reflection_event_at_initial_age(text, t) ==
    [age |-> InitialAge, title |-> "Personal Reflection",
     category |-> "Personal Growth",
     description |-> "Prompt: " \o selected_prompt \o " Reflection: " \o text,
     sentiment |-> "Neutral", impact |-> 5, life_area |-> "Personal Growth",
     lessons_learned |-> "", current_perspective |-> "",
     timestamp |-> t, range |-> RangeOf(InitialAge)]

reflection_event(text, t) ==
    [age |-> current_age, title |-> "Personal Reflection",
     category |-> "Personal Growth",
     description |-> "Prompt: " \o selected_prompt \o " Reflection: " \o text,
     sentiment |-> "Neutral", impact |-> 5, life_area |-> "Personal Growth",
     lessons_learned |-> "", current_perspective |-> "",
     timestamp |-> t, range |-> RangeOf(current_age)]

SaveReflection(r) ==
    LET reflection_text == ReflectionTexts[r] IN
    /\ life_events # << >>
    /\ reflection_text # "" => Len(life_events) < MaxEvents
    /\ lastOp' = Op("reflect", r)
    /\ InsightsPage(life_events)
    /\ UNCHANGED current_age
    /\ IF reflection_text # ""
       THEN /\ \E t \in now..MaxClock :
                  /\ now' = t
                  /\ life_events' = AppendEvent(life_events, reflection_event(reflection_text, t))
            /\ message' = Success(1)
       ELSE /\ message' = NoMessage
            /\ UNCHANGED <<life_events, now>>

----------------------------------------------------------------------------
(* Collections for the Insights page *)

\* an event as Add Event stores it
Stored(a, s, i, l) ==
    NewEvent([age |-> a, title |-> "Event", category |-> "Personal Achievement",
              description |-> "text", sentiment |-> s, impact |-> i,
              life_area |-> l, lessons_learned |-> "",
              current_perspective |-> ""], 1)

InsightSamples ==
    { Stored(20, "Negative", 9, "Career"),
      Stored(30, "Positive", 8, "Career"),
      Stored(30, "Negative", 5, "Health"),
      Stored(40, "Negative", 3, "Career"),
      Stored(50, "Neutral", 2, "Family") }

InitInsights ==
    /\ life_events \in UNION { [1..n -> InsightSamples] : n \in 0..MaxInsightLen }
    /\ current_age = InitialAge
    /\ now = 1
    /\ message = NoMessage
    /\ lastOp = Op("start", 0)
    /\ Blank

NextInsights == RenderInsights

SpecInsights == InitInsights /\ [][NextInsights]_vars

----------------------------------------------------------------------------
(* Progress Tracking: the milestones *)

\* the titles of the events entered here whose lower case contains
\* "reflection"
ReflectionTitles == { "Personal Reflection" }

\* len([e for e in life_events if "reflection" in e.get('title', '').lower()])
reflection_events(events) ==
    Cardinality({ i \in 1..Len(events) : events[i].title \in ReflectionTitles })

\* df['life_area'].nunique()
LifeAreaNunique(df) == Cardinality({ df[i].life_area : i \in 1..Len(df) })

\* the list built by the four appends, in their order
MilestoneList(df) ==
    LET total_events == Len(df)
        m1 == IF total_events >= 5
              THEN << "Documented 5+ life events" >> ELSE << >>
        m2 == IF total_events >= 10
              THEN Append(m1, "Reached 10+ life events") ELSE m1
        m3 == IF reflection_events(df) >= 1
              THEN Append(m2, "Added personal reflections") ELSE m2
    IN IF LifeAreaNunique(df) >= 5
       THEN Append(m3, "Explored 5+ life areas") ELSE m3

\* the milestone lines the page writes: the list is built and written inside
\* the growth tracking block, entered only if len(df) >= 3
Milestones(df) == IF Len(df) >= 3 THEN MilestoneList(df) ELSE << >>

\* a run of the script with the Progress Tracking page selected and events
\* present
RenderProgress ==
    /\ life_events # << >>
    /\ milestones' = Milestones(life_events)
    /\ NoInsights
    /\ NoAnalytics
    /\ message' = NoMessage
    /\ lastOp' = Op("progress", 0)
    /\ UNCHANGED <<life_events, current_age, now>>

----------------------------------------------------------------------------
(* Collections for the Visual Analytics, Insights and Progress pages *)

\* a stored event with a given age, sentiment, impact, life area and category
Sample(a, s, i, l, c) ==
    NewEvent([age |-> a, title |-> "Event", category |-> c,
              description |-> "text", sentiment |-> s, impact |-> i,
              life_area |-> l, lessons_learned |-> "",
              current_perspective |-> ""], 1)

PatternSamples ==
    { Sample(10, "Positive", 2, "Relationships", "Education & Learning"),
      Sample(20, "Negative", 2, "Career", "Life-Changing Moment"),
      Sample(30, "Positive", 2, "Career", "Education & Learning"),
      Sample(40, "Negative", 8, "Relationships", "Life-Changing Moment"),
      Sample(50, "Positive", 8, "Personal Growth", "Career & Work"),
      Sample(40, "Negative", 2, "Health", "Career & Work") }

InitPatterns ==
    /\ life_events \in UNION { [1..n -> PatternSamples] : n \in 0..MaxPatternLen }
    /\ current_age = InitialAge
    /\ now = 1
    /\ message = NoMessage
    /\ lastOp = Op("start", 0)
    /\ Blank

NextPatterns == RenderInsights \/ RenderAnalytics

SpecPatterns == InitPatterns /\ [][NextPatterns]_vars

\* Collections for the Progress Tracking page: events of five life areas and a
\* saved reflection
ProgressSamples ==
    { Sample(10, "Positive", 2, "Relationships", "Education & Learning"),
      Sample(20, "Negative", 2, "Career", "Career & Work"),
      Sample(30, "Positive", 2, "Health", "Health & Wellness"),
      Sample(40, "Negative", 8, "Family", "Relationships & Family"),
      Sample(50, "Positive", 8, "Education", "Education & Learning"),
      reflection_event(ReflectionTexts[2], 1) }

InitProgress ==
    /\ current_age = InitialAge
    /\ life_events \in UNION { [1..n -> ProgressSamples] : n \in 0..MaxProgressLen }
    /\ now = 1
    /\ message = NoMessage
    /\ lastOp = Op("start", 0)
    /\ Blank

NextProgress == RenderProgress

SpecProgress == InitProgress /\ [][NextProgress]_vars

----------------------------------------------------------------------------
(* Data Management: Reset All Data *)

\* Reset All Data: the checkbox is created inside the button's branch, so in
\* the run the button triggers it is unchecked, and in the run the checkbox
\* triggers the button is not pressed: the clearing branch is never taken
ResetAllData ==
    /\ lastOp' = Op("reset", 0)
    /\ message' = NoMessage
    /\ NothingRendered
    /\ UNCHANGED <<life_events, current_age, now>>

----------------------------------------------------------------------------
(* The session *)

Init ==
    /\ life_events = << >>
    /\ current_age = InitialAge
    /\ now = 1
    /\ message = NoMessage
    /\ lastOp = Op("start", 0)
    /\ Blank

Next ==
    \/ \E f \in 1..Len(FormInputs) : AddEvent(f)
    \/ \E flt \in Range(Filters), idx \in 0..(MaxEvents - 1) : Delete(flt, idx)
    \/ ClearAll
    \/ \E r \in 1..Len(ReflectionTexts) : SaveReflection(r)
    \/ \E u \in 1..Len(ImportFiles) : ImportData(u)
    \/ ResetAllData
    \/ RenderInsights

Spec == Init /\ [][Next]_vars

----------------------------------------------------------------------------
(* The removal expression of Delete as a function of the list and the index, *)
(* applied to every index, in range or not                                   *)

DeleteSamples ==
    { NewEvent(FormInputs[1], 1), NewEvent(FormInputs[2], 1),
      ImportFiles[1].data[1] }

InitDelete ==
    /\ life_events \in UNION { [1..n -> DeleteSamples] : n \in 0..MaxEvents }
    /\ lastOp \in { Op("index", idx) : idx \in 0..MaxEvents }
    /\ current_age = InitialAge
    /\ now = 1
    /\ message = NoMessage
    /\ Blank

DeleteEvent ==
    /\ lastOp.op = "index"
    /\ life_events' = DeleteAt(life_events, lastOp.arg)
    /\ message' = NoMessage
    /\ lastOp' = Op("delete", lastOp.arg)
    /\ NothingRendered
    /\ UNCHANGED <<current_age, now>>

NextDelete == DeleteEvent

SpecDelete == InitDelete /\ [][NextDelete]_vars

----------------------------------------------------------------------------
(* The table of events as displayed, and Delete pressed on one of its rows *)

SortKeys == << "age", "impact", "timestamp", "sentiment" >>

\* the place of a sentiment in ascending string order
SentimentRank(s) ==
    CASE s = "Mixed" -> 1
      [] s = "Negative" -> 2
      [] s = "Neutral" -> 3
      [] s = "Positive" -> 4

\* the place of a row in sort_values(sort_by, ascending = (sort_by = "age")):
\* rows of smaller place come first
Place(e, sort_by) ==
    CASE sort_by = "age" -> e.age
      [] sort_by = "impact" -> 0 - e.impact
      [] sort_by = "timestamp" -> 0 - e.timestamp
      [] sort_by = "sentiment" -> 0 - SentimentRank(e.sentiment)

\* a row of the data frame: its index label and the event it shows
Row(i) == [idx |-> i, event |-> life_events[i + 1]]

\* the orders sort_values may give the rows with the labels in S: sorted by
\* place, rows of equal place in any order (the default sort kind, quicksort,
\* does not fix it)
RECURSIVE SortedRows(_, _)
SortedRows(S, sort_by) ==
    IF S = {} THEN { << >> }
    ELSE UNION { { << Row(i) >> \o rest : rest \in SortedRows(S \ {i}, sort_by) } :
                 i \in { m \in S :
                           \A j \in S : Place(Row(m).event, sort_by)
                                            <= Place(Row(j).event, sort_by) } }

\* (variant: the position of the row in the displayed table)
PressedPosition(display_df, k) == k - 1

\* the idx of the k-th (idx, event) pair of display_df.iterrows(), whose
\* button has the key delete_{idx}
PressedIdx(display_df, k) == display_df[k].idx

\* Delete pressed on the k-th row of the table shown for sort_by and
\* filter_sentiment
DeleteRow(sort_by, filter_sentiment, k) ==
    /\ life_events # << >>
    /\ \E display_df \in SortedRows(DisplayedLabels(filter_sentiment), sort_by) :
          /\ k \in 1..Len(display_df)
          /\ life_events' = DeleteAt(life_events, PressedIdx(display_df, k))
          /\ lastOp' = [op |-> "delete", arg |-> PressedIdx(display_df, k),
                        row |-> k, shown |-> display_df[k].event]
    /\ message' = NoMessage
    /\ NothingRendered
    /\ UNCHANGED <<current_age, now>>

\* a stored event with a given age, sentiment, impact and time of entry
Shown(a, s, i, t) ==
    NewEvent([age |-> a, title |-> "Event", category |-> "Career & Work",
              description |-> "text", sentiment |-> s, impact |-> i,
              life_area |-> "Career", lessons_learned |-> "",
              current_perspective |-> ""], t)

DisplaySamples ==
    { Shown(30, "Positive", 7, 1), Shown(20, "Negative", 7, 2),
      Shown(40, "Positive", 3, 1), Shown(20, "Mixed", 9, 3) }

InitDisplay ==
    /\ life_events \in UNION { [1..n -> DisplaySamples] : n \in 0..MaxDisplayLen }
    /\ current_age = InitialAge
    /\ now = 1
    /\ message = NoMessage
    /\ lastOp = Op("start", 0)
    /\ Blank

NextDisplay ==
    \E sort_by \in Range(SortKeys), flt \in Range(Filters), k \in 1..MaxDisplayLen :
        DeleteRow(sort_by, flt, k)

SpecDisplay == InitDisplay /\ [][NextDisplay]_vars

----------------------------------------------------------------------------
(* Properties of the event collection *)

\* a field set that passes the validation the specification describes
Valid(in) ==
    /\ in.title # ""
    /\ in.description # ""
    /\ in.age \in 0..100
    /\ in.impact \in 1..10

ValidRecord(r) ==
    /\ Valid(r)
    /\ r.category \in Range(event_categories)
    /\ r.sentiment \in Range(sentiments)
    /\ r.life_area \in Range(life_areas)

\* the nine life stages by their boundaries: the number of the stage of an age
BucketIndex(age) ==
    IF age <= 5 THEN 1
    ELSE IF age <= 12 THEN 2
    ELSE IF age <= 17 THEN 3
    ELSE IF age <= 22 THEN 4
    ELSE IF age <= 29 THEN 5
    ELSE IF age <= 39 THEN 6
    ELSE IF age <= 49 THEN 7
    ELSE IF age <= 59 THEN 8
    ELSE 9

AgeBucket(age) == age_buckets[BucketIndex(age)].label

\* C1: every stored event has an impact in 1..10 and an age in 0..100.
C1_ImpactAndAgeInRange ==
    \A i \in 1..Len(life_events) :
        /\ life_events[i].impact \in 1..10
        /\ life_events[i].age \in 0..100

\* C2: the category of every stored event is one of the 12 event categories.
C2_CategoryInClosedSet ==
    \A i \in 1..Len(life_events) :
        life_events[i].category \in Range(event_categories)

\* C3: a valid Add Event submission appends exactly one record: the previous
\* records are unchanged and in the same order, the new record is last, carries
\* the submitted fields and has the age range of its age.
C3_AddAppendsOneRecord ==
    [][ (lastOp'.op = "submit" /\ Valid(FormInputs[lastOp'.arg])) =>
          LET in == FormInputs[lastOp'.arg]
              n == Len(life_events)
          IN /\ Len(life_events') = n + 1
             /\ SubSeq(life_events', 1, n) = life_events
             /\ LET e == life_events'[n + 1]
                IN /\ e.age = in.age
                   /\ e.title = in.title
                   /\ e.category = in.category
                   /\ e.description = in.description
                   /\ e.sentiment = in.sentiment
                   /\ e.impact = in.impact
                   /\ e.life_area = in.life_area
                   /\ e.range = AgeBucket(in.age) ]_vars

\* C3 witness: a valid submission was added behind an earlier record
C3_Witness ==
    /\ lastOp.op = "submit"
    /\ Valid(FormInputs[lastOp.arg])
    /\ Len(life_events) >= 2
    /\ life_events[Len(life_events)].title = FormInputs[lastOp.arg].title
    /\ life_events[1].title # FormInputs[lastOp.arg].title

RemovedAt(before, after, idx) ==
    /\ Len(after) = Len(before) - 1
    /\ \A p \in 1..Len(after) :
          after[p] = before[IF p <= idx THEN p ELSE p + 1]

C6_ImportSkipsInvalid ==
    [][ (lastOp'.op = "import" /\ ImportFiles[lastOp'.arg].parsed) =>
          LET accepted == SelectSeq(ImportFiles[lastOp'.arg].data, ValidRecord)
          IN /\ life_events' = life_events \o accepted
             /\ message' = Success(Len(accepted)) ]_vars

\* C7: the timestamps of the stored events are non-decreasing in list order.
C7_TimestampsNonDecreasing ==
    \A i, j \in 1..Len(life_events) :
        i < j => life_events[i].timestamp <= life_events[j].timestamp

\* C8: every stored event's age range is the bucket of its age, never "Unknown".
C8_RangeIsBucketOfAge ==
    \A i \in 1..Len(life_events) :
        /\ life_events[i].range = AgeBucket(life_events[i].age)
        /\ life_events[i].range # "Unknown"

----------------------------------------------------------------------------
(* Properties of the recommendation list *)

PriorityOrder ==
    << "Mindset & Perspective", "Goal Setting", "Life Balance", "Stress Management" >>

AreasOf(recs) == [i \in 1..Len(recs) |-> recs[i].area]

\* the rule conditions as the specification words them, over sets of rows
Rule1Holds(df) ==
    10 * Cardinality({ i \in 1..Len(df) : df[i].sentiment = "Positive" }) < 4 * Len(df)

Rule2Holds(df) ==
    10 * Cardinality({ i \in 1..Len(df) : df[i].impact >= 8 }) < 3 * Len(df)

Rule3Holds(df) ==
    \E a \in Range(life_areas) :
        2 * Cardinality({ i \in 1..Len(df) : df[i].life_area = a }) > Len(df)

\* the sets of 5 rows that are "the 5 events with the largest age": no row left
\* out is older than a row taken (several such sets when ages tie at the cut)
Top5Sets(df) ==
    { S \in SUBSET (1..Len(df)) :
        /\ Cardinality(S) = 5
        /\ \A i \in S, j \in (1..Len(df)) \ S : df[i].age >= df[j].age }

Negatives(df, S) == Cardinality({ i \in S : df[i].sentiment = "Negative" })

\* the choice among them that prefers, at equal age, the event entered earlier
\* (empty under 5 events)
FirstTop5(df) ==
    IF Len(df) < 5 THEN {}
    ELSE { i \in 1..Len(df) :
             Cardinality({ j \in 1..Len(df) :
                             \/ df[j].age > df[i].age
                             \/ df[j].age = df[i].age /\ j < i }) < 5 }

Rule4Holds(df) ==
    /\ Len(df) >= 5
    /\ Negatives(df, FirstTop5(df)) >= 3

\* rule 4 under every choice of the 5 oldest events, and under some choice
Rule4Surely(df) ==
    /\ Len(df) >= 5
    /\ \A S \in Top5Sets(df) : Negatives(df, S) >= 3

Rule4Possibly(df) == \E S \in Top5Sets(df) : Negatives(df, S) >= 3

\* C9: the recommendation list is a subsequence of the priority order (at
\* most one item per rule, in rule order), and it is empty exactly when no
\* rule's condition holds.
C9_RecommendationsInPriorityOrder ==
    lastOp.op = "insights" =>
        LET areas == AreasOf(recommendations)
            df == life_events
        IN /\ areas = SelectSeq(PriorityOrder, LAMBDA a : a \in Range(areas))
           /\ (recommendations = << >>) <=>
                 ~(Rule1Holds(df) \/ Rule2Holds(df) \/ Rule3Holds(df) \/ Rule4Holds(df))

\* C9 witness: the first, third and fourth rule fired and the second did not
C9_Witness ==
    /\ lastOp.op = "insights"
    /\ AreasOf(recommendations) =
          << "Mindset & Perspective", "Life Balance", "Stress Management" >>

\* C10: the stress-management item is emitted iff there are at least 5 events
\* and at least 3 of the 5 events with the largest age are Negative (at equal
\* age at the cut, the 5 are the events entered earlier); whatever the ties,
\* it is emitted if every choice of the 5 oldest has 3 Negative and only if
\* some choice has, and never with fewer than 5 events.
C10_StressRuleIffThreeOfTopFive ==
    lastOp.op = "insights" =>
        LET emitted == "Stress Management" \in Range(AreasOf(recommendations))
            df == life_events
        IN /\ emitted <=> Rule4Holds(df)
           /\ Len(df) >= 5 => FirstTop5(df) \in Top5Sets(df)
           /\ Len(df) < 5 => ~emitted
           /\ Rule4Surely(df) => emitted
           /\ emitted => Rule4Possibly(df)

\* C10 witness: six events, one choice of the 5 oldest, the youngest (entered
\* first) left out, exactly 3 of the 5 Negative, item emitted
C10_Witness ==
    /\ lastOp.op = "insights"
    /\ Len(life_events) = 6
    /\ Cardinality(Top5Sets(life_events)) = 1
    /\ 1 \notin CHOOSE S \in Top5Sets(life_events) : TRUE
    /\ Negatives(life_events, 2..6) = 3
    /\ "Stress Management" \in Range(AreasOf(recommendations))

----------------------------------------------------------------------------
(* Properties of the detected patterns *)

\* the k oldest events and the k youngest events as sets of positions; at equal
\* age the event entered earlier is preferred
Oldest(df, k) ==
    { i \in 1..Len(df) :
        Cardinality({ j \in 1..Len(df) :
                        \/ df[j].age > df[i].age
                        \/ df[j].age = df[i].age /\ j < i }) < k }

Youngest(df, k) ==
    { i \in 1..Len(df) :
        Cardinality({ j \in 1..Len(df) :
                        \/ df[j].age < df[i].age
                        \/ df[j].age = df[i].age /\ j < i }) < k }

RECURSIVE TotalImpact(_, _)
TotalImpact(df, S) ==
    IF S = {} THEN 0
    ELSE LET i == CHOOSE x \in S : TRUE
         IN df[i].impact + TotalImpact(df, S \ {i})

\* C11: the growth trajectory is produced iff count >= 3; it is Increasing
\* exactly when the mean impact of the 3 oldest events is strictly greater than
\* that of the 3 youngest, and Stabilizing otherwise (equality included).
C11_GrowthTrajectory ==
    lastOp.op = "insights" =>
        LET df == life_events
            recent == TotalImpact(df, Oldest(df, 3))
            early == TotalImpact(df, Youngest(df, 3))
        IN /\ growth_trajectory # "" <=> Len(df) >= 3
           /\ Len(df) >= 3 =>
                 /\ growth_trajectory \in {"Increasing", "Stabilizing"}
                 /\ growth_trajectory = "Increasing" <=> recent > early

\* C11 witness: ages 10, 20, 30, 40, 50 with impacts 2, 2, 2, 8, 8 give
\* Increasing
C11_Witness ==
    /\ lastOp.op = "insights"
    /\ [i \in 1..Len(life_events) |-> life_events[i].age] = <<10, 20, 30, 40, 50>>
    /\ [i \in 1..Len(life_events) |-> life_events[i].impact] = <<2, 2, 2, 8, 8>>
    /\ growth_trajectory = "Increasing"

\* the collection with the events at positions i and i + 1 exchanged
SwapAt(df, i) ==
    [k \in 1..Len(df) |-> IF k = i THEN df[i + 1]
                          ELSE IF k = i + 1 THEN df[i] ELSE df[k]]

SameResults(df) ==
    /\ GrowthTrajectory(df) = growth_trajectory
    /\ Recommendations(df) = recommendations

\* C12 (as stated): the growth trajectory and the recommendation list are the
\* same for every reordering of the collection, events of equal age included
\* (reorderings are generated by exchanges of neighbours).
C12_OrderIndependent ==
    lastOp.op = "insights" =>
        \A i \in 1..(Len(life_events) - 1) : SameResults(SwapAt(life_events, i))

\* C12 (amended): the growth trajectory and the recommendation list are the
\* same for every reordering that keeps events of equal age in their relative
\* order (reorderings generated by exchanges of neighbours of different age).
C12_OrderIndependentUpToEqualAges ==
    lastOp.op = "insights" =>
        \A i \in 1..(Len(life_events) - 1) :
            life_events[i].age # life_events[i + 1].age =>
                SameResults(SwapAt(life_events, i))

\* C12 witness: a collection with two events of one age and neighbours of
\* different age, analysed with a growth line and a recommendation written
C12_Witness ==
    /\ lastOp.op = "insights"
    /\ \E i, j \in 1..Len(life_events) :
          i # j /\ life_events[i].age = life_events[j].age
    /\ \E i \in 1..(Len(life_events) - 1) :
          life_events[i].age # life_events[i + 1].age
    /\ growth_trajectory = "Increasing"
    /\ recommendations # << >>

\* v is in S and no other value of S comes before it in the sequence order
IsFirstOf(order, S, v) ==
    /\ v \in S
    /\ \A k \in 1..Len(order) :
          order[k] \in S => \E j \in 1..k : order[j] = v

\* C13 (as stated): the dominant life area and the top category have the
\* highest frequency and, of the values tied for it, are the first in the order
\* in which the form lists the life areas and the event categories.
C13_ModeFirstListed ==
    /\ lastOp.op = "insights" =>
          IsFirstOf(life_areas, Modes(life_events, "life_area"), top_area)
    /\ lastOp.op = "analytics" =>
          IsFirstOf(event_categories, Modes(life_events, "category"),
                    most_common_category)

\* C13 (amended): the dominant life area and the top category have the highest
\* frequency and, of the values tied for it, are the first in ascending string
\* order.
C13_ModeFirstSorted ==
    /\ lastOp.op = "insights" =>
          IsFirstOf(life_areas_sorted, Modes(life_events, "life_area"), top_area)
    /\ lastOp.op = "analytics" =>
          IsFirstOf(categories_sorted, Modes(life_events, "category"),
                    most_common_category)

\* C13 witness: Relationships and Career are tied for the highest frequency and
\* Career is reported
C13_Witness ==
    /\ lastOp.op = "insights"
    /\ {"Relationships", "Career"} \subseteq Modes(life_events, "life_area")
    /\ top_area = "Career"

\* the events of a bucket, as positions, and the bucket's lower bound
InBucket(df, r) == { i \in 1..Len(df) : df[i].range = r }

LowerBound(r) ==
    LET k == CHOOSE k \in 1..Len(age_buckets) : age_buckets[k].label = r
    IN age_buckets[k].lo

\* the mean impact of bucket a is at most that of bucket b
MeanAtMost(df, a, b) ==
    TotalImpact(df, InBucket(df, a)) * Cardinality(InBucket(df, b))
        <= TotalImpact(df, InBucket(df, b)) * Cardinality(InBucket(df, a))

HasMaximalMean(df, r) ==
    /\ InBucket(df, r) # {}
    /\ \A i \in 1..Len(df) : MeanAtMost(df, df[i].range, r)

\* C14 (as stated): the most impactful range is a bucket with maximal mean
\* impact, and of the buckets tied for it the one with the lowest lower bound.
C14_TopRangeLowestBound ==
    lastOp.op = "insights" =>
        /\ HasMaximalMean(life_events, top_range)
        /\ \A i \in 1..Len(life_events) :
              HasMaximalMean(life_events, life_events[i].range) =>
                  LowerBound(top_range) <= LowerBound(life_events[i].range)

\* C14 (amended): the most impactful range is a bucket with maximal mean
\* impact.
C14_TopRangeMaximalMean ==
    lastOp.op = "insights" => HasMaximalMean(life_events, top_range)

\* C14 witness: the buckets 6-12 and 18-22 are tied for the highest mean impact
\* and 18-22 is reported
C14_Witness ==
    /\ lastOp.op = "insights"
    /\ HasMaximalMean(life_events, AgeBucket(10))
    /\ HasMaximalMean(life_events, AgeBucket(20))
    /\ top_range = AgeBucket(20)

----------------------------------------------------------------------------
(* Properties of the milestones *)

Written(line) == \E k \in 1..Len(milestones) : milestones[k] = line

\* C15: for every non-empty collection, whatever its size, each of the four
\* milestones is written exactly when its own condition holds: 5 or more
\* events, 10 or more events, at least one event whose title contains
\* "reflection", 5 or more distinct life areas.
C15_MilestonesForEveryCollection ==
    lastOp.op = "progress" =>
        /\ Written("Documented 5+ life events") <=> Len(life_events) >= 5
        /\ Written("Reached 10+ life events") <=> Len(life_events) >= 10
        /\ Written("Added personal reflections") <=>
              \E i \in 1..Len(life_events) :
                  life_events[i].title \in ReflectionTitles
        /\ Written("Explored 5+ life areas") <=>
              Cardinality({ life_events[i].life_area :
                              i \in 1..Len(life_events) }) >= 5

----------------------------------------------------------------------------
(* Properties of Delete on the displayed table *)

\* C16: Delete pressed on a displayed event removes exactly that event and no
\* other, whatever the sort key and the sentiment filter: the index used is the
\* event's position in the stored list, not its position in the table.
C16_DeleteRemovesDisplayedEvent ==
    [][ lastOp'.op = "delete" =>
            /\ lastOp'.arg \in 0..(Len(life_events) - 1)
            /\ life_events[lastOp'.arg + 1] = lastOp'.shown
            /\ RemovedAt(life_events, life_events', lastOp'.arg)
      ]_vars

\* C16 witness: a Delete pressed on a row whose place in the table is not the
\* event's position in the stored list
C16_Witness ==
    /\ lastOp.op = "delete"
    /\ lastOp.row - 1 # lastOp.arg
    /\ life_events # << >>

----------------------------------------------------------------------------
(* Properties of current_age and of the saved reflections *)

ReflectionCount(events) ==
    Cardinality({ i \in 1..Len(events) : events[i].title \in ReflectionTitles })

\* C17: current_age is 25 initially, becomes the submitted age at every
\* successful Add Event and is changed by nothing else (Delete, Clear All,
\* Import Data, Save Reflection); a saved reflection is appended as one event
\* with the age current_age, the range bucket of that age, the title
\* "Personal Reflection", sentiment Neutral and impact 5, and raises the
\* reflection count by exactly 1.
C17_CurrentAgeAndReflections ==
    /\ current_age = 25
    /\ [][ /\ lastOp'.op = "submit" =>
                current_age' = IF Valid(FormInputs[lastOp'.arg])
                               THEN FormInputs[lastOp'.arg].age
                               ELSE current_age
           /\ lastOp'.op # "submit" => current_age' = current_age
           /\ (lastOp'.op = "reflect" /\ ReflectionTexts[lastOp'.arg] # "") =>
                LET n == Len(life_events) IN
                /\ Len(life_events') = n + 1
                /\ SubSeq(life_events', 1, n) = life_events
                /\ life_events'[n + 1].age = current_age
                /\ life_events'[n + 1].range = AgeBucket(current_age)
                /\ life_events'[n + 1].title = "Personal Reflection"
                /\ life_events'[n + 1].sentiment = "Neutral"
                /\ life_events'[n + 1].impact = 5
                /\ ReflectionCount(life_events') = ReflectionCount(life_events) + 1
           /\ (lastOp'.op = "reflect" /\ ReflectionTexts[lastOp'.arg] = "") =>
                life_events' = life_events
      ]_vars

\* C17 witness: a reflection saved after an event of another age than 25 was
\* added, and entered at that age
C17_Witness ==
    /\ lastOp.op = "reflect"
    /\ ReflectionTexts[lastOp.arg] # ""
    /\ current_age # 25
    /\ Len(life_events) >= 2
    /\ life_events[Len(life_events)].title = "Personal Reflection"
    /\ life_events[Len(life_events)].age = current_age

====
